---------------------------- MODULE Spec2Model ----------------------------
(***************************************************************************)
(* A model of crytic-compile's Dapp, Waffle and Standard platforms:        *)
(*   src/crytic_compile/platform/dapp.py                                   *)
(*   src/crytic_compile/platform/waffle.py                                 *)
(*   src/crytic_compile/platform/standard.py                               *)
(*                                                                         *)
(* Encoding of Python values.  A path is the sequence of its components    *)
(* (pathlib's Path.parts), a str that is split or joined is the sequence   *)
(* of its characters, a dict is a function whose DOMAIN is its key set     *)
(* (a missing key is a key outside the DOMAIN), None is the string "None"  *)
(* where the other values are strings, and Python's True/False/None in a   *)
(* tri-state field are the strings "True"/"False"/"None".                  *)
(***************************************************************************)
EXTENDS Integers, Sequences, FiniteSets, TLC

VARIABLES
    cc,        \* the CryticCompile session being built or read
    platform,  \* the platform object of the session (crytic_compile.platform)
    pc,        \* position of the running operation
    env,       \* what the operation reads: the tool, its output files, the document
    loc,       \* locals of the running operation
    hist,      \* history: commands spawned, documents exported, the session exported
    fn         \* argument and result of a pure function under study

vars == <<cc, platform, pc, env, loc, hist, fn>>

---------------------------------------------------------------------------
(* Bounds of the model *)

\* contracts per build output or per compilation unit of a document
MaxContracts == 2
\* path components of an argument of _relative_to_short
MaxParts == 3
\* generate_standard_export calls on one session
MaxExports == 2
\* is_dependency calls on one platform instance
MaxCalls == 3

---------------------------------------------------------------------------
(* Python values *)

None == "None"
PyTrue == "True"
PyFalse == "False"
PyBool(b) == IF b THEN PyTrue ELSE PyFalse

Has(d, k) == k \in DOMAIN d
Put(d, k, v) == [j \in DOMAIN d \cup {k} |-> IF j = k THEN v ELSE d[j]]
Drop(d, k) == [j \in DOMAIN d \ {k} |-> d[j]]
EmptyDict == <<>>
Values(d) == {d[k] : k \in DOMAIN d}

\* str.split(";"): "" splits into [""], never into []
RECURSIVE SplitFrom(_, _, _)
SplitFrom(s, i, acc) ==
    IF i > Len(s) THEN <<acc>>
    ELSE IF s[i] = ";" THEN <<acc>> \o SplitFrom(s, i + 1, <<>>)
    ELSE SplitFrom(s, i + 1, Append(acc, s[i]))
Split(s) == SplitFrom(s, 1, <<>>)

\* ";".join(segments): the empty list joins into ""
RECURSIVE Join(_)
Join(segs) ==
    IF Len(segs) = 0 THEN <<>>
    ELSE IF Len(segs) = 1 THEN segs[1]
    ELSE segs[1] \o <<";">> \o Join(Tail(segs))

---------------------------------------------------------------------------
(* Paths *)

\* Path.relative_to(root) for a one-component root: the path without its
\* first component when that component is root, ValueError otherwise
StartsWith(path, root) == Len(path) >= 1 /\ path[1] = root
RelativeTo(path, root) == Tail(path)

\* dapp.py _relative_to_short: "src" is tried first, then "lib"
DappShortSkipsLib(relative) ==
    IF StartsWith(relative, "src") THEN RelativeTo(relative, "src") ELSE relative
dapp_relative_to_short(relative) ==
    IF StartsWith(relative, "src") THEN RelativeTo(relative, "src")
    ELSE IF StartsWith(relative, "lib") THEN RelativeTo(relative, "lib")
    ELSE relative

\* waffle.py _relative_to_short: "contracts" is tried first, then "node_modules"
waffle_relative_to_short(relative) ==
    IF StartsWith(relative, "contracts") THEN RelativeTo(relative, "contracts")
    ELSE IF StartsWith(relative, "node_modules") THEN RelativeTo(relative, "node_modules")
    ELSE relative

---------------------------------------------------------------------------
(* The data model: Filename, CompilerVersion, Natspec, CompilationUnit,   *)
(* CryticCompile.  Their classes are not among the source files; they are *)
(* modelled from the specification's data model and from the way the      *)
(* platforms use them.                                                    *)

Filename(absolute, relative, short, used) ==
    [absolute |-> absolute, relative |-> relative, short |-> short, used |-> used]
IsFilename(v) == DOMAIN v = {"absolute", "relative", "short", "used"}
\* a plain str stored where a Filename is expected
Str(path) == [str |-> path]

CompilerVersion(compiler, version, optimized) ==
    [compiler |-> compiler, version |-> version, optimized |-> optimized]
\* compiler_version of a unit no platform has assigned yet
UnsetVersion == [unset |-> TRUE]

Natspec(userdoc, devdoc) == [userdoc |-> userdoc, devdoc |-> devdoc]

\* CompilationUnit(crytic_compile, key): empty mappings
NewUnit ==
    [contracts_names |-> {}, contracts_filenames |-> EmptyDict, abis |-> EmptyDict,
     bytecodes_init |-> EmptyDict, bytecodes_runtime |-> EmptyDict,
     srcmaps_init |-> EmptyDict, srcmaps_runtime |-> EmptyDict,
     libraries |-> EmptyDict, natspec |-> EmptyDict, asts |-> EmptyDict,
     compiler_version |-> UnsetVersion]

\* the constructor registers the unit in crytic_compile.compilation_units
\* (load_from_compile reads the units back from there on line 278)
RegisterUnit(session, key) ==
    [session EXCEPT !.compilation_units = Put(@, key, NewUnit)]

SetUnit(session, key, unit) ==
    [session EXCEPT !.compilation_units = Put(@, key, unit)]

\* a CryticCompile session before any platform has run
FreshSession ==
    [compilation_units |-> EmptyDict, filenames |-> {}, dependencies |-> {},
     package_name |-> None, working_dir |-> "."]

\* the platform object: _cached_dependencies of AbstractPlatform, and
\* Standard.__init__'s _underlying_platform and _unit_tests
NewPlatform(kind) ==
    [kind |-> kind, cached |-> EmptyDict, underlying |-> kind, unit_tests |-> <<>>]

\* crytic_compile.platform.Type, the members the three platforms name, and
\* the tag of AbstractPlatform, which no registered platform carries
TypeNotImplemented == 0
TypeDapp == 4
TypeWaffle == 8
TypeStandard == 100
\* platform.TYPE of the registered platforms (get_platforms())
TypeOf(kind) ==
    CASE kind = "Dapp" -> TypeDapp
      [] kind = "Waffle" -> TypeWaffle
      [] kind = "Standard" -> TypeStandard
RegisteredPlatforms == {"Dapp", "Waffle", "Standard"}

---------------------------------------------------------------------------
(* load_from_compile: population of one contract from its JSON object *)

HasFilenames(c) ==
    /\ Has(c, "filenames")
    /\ \A view \in {"absolute", "relative", "short", "used"} : Has(c["filenames"], view)

\* The statement of the per-contract loop body whose subscript raises
\* KeyError on the contract object c (0: none).  Both loops (198-223 and
\* 247-274) read the keys in this order.
FailAt(c) ==
    IF ~HasFilenames(c) THEN 1
    ELSE IF ~Has(c, "abi") THEN 2
    ELSE IF ~Has(c, "bin") THEN 3
    ELSE IF ~Has(c, "bin-runtime") THEN 4
    ELSE IF ~Has(c, "srcmap") THEN 5
    ELSE IF ~Has(c, "srcmap-runtime") THEN 6
    ELSE IF ~Has(c, "libraries") THEN 7
    ELSE IF ~Has(c, "is_dependency") THEN 8
    ELSE 0
\* statement k of the loop body has been executed when the body ends
Ran(c, k) == FailAt(c) = 0 \/ FailAt(c) > k

\* contract.get(key, {})
GetDoc(c, key) == IF Has(c, key) THEN c[key] ELSE "{}"

ContractFilename(c) ==
    Filename(c["filenames"]["absolute"], c["filenames"]["relative"],
             c["filenames"]["short"], c["filenames"]["used"])

FourViews(f) == {f.absolute, f.relative, f.short, f.used}

\* LegacyPopulate with the runtime source map taken from "srcmap"
LegacyCopiesInitSrcmap(unit, name, c) ==
    [unit EXCEPT
        !.contracts_names = @ \cup {name},
        !.contracts_filenames = IF Ran(c, 1) THEN Put(@, name, ContractFilename(c)) ELSE @,
        !.abis = IF Ran(c, 2) THEN Put(@, name, c["abi"]) ELSE @,
        !.bytecodes_init = IF Ran(c, 3) THEN Put(@, name, c["bin"]) ELSE @,
        !.bytecodes_runtime = IF Ran(c, 4) THEN Put(@, name, c["bin-runtime"]) ELSE @,
        !.srcmaps_init = IF Ran(c, 5) THEN Put(@, name, Split(c["srcmap"])) ELSE @,
        !.srcmaps_runtime = IF Ran(c, 6) THEN Put(@, name, Split(c["srcmap"])) ELSE @,
        !.libraries = IF Ran(c, 7) THEN Put(@, name, c["libraries"]) ELSE @,
        !.natspec =
            IF Ran(c, 7)
            THEN Put(@, name, Natspec(GetDoc(c, "userdoc"), GetDoc(c, "devdoc")))
            ELSE @]
\* _load_from_compile_legacy, lines 199-217, up to the first KeyError
LegacyPopulate(unit, name, c) ==
    [unit EXCEPT
        !.contracts_names = @ \cup {name},
        !.contracts_filenames = IF Ran(c, 1) THEN Put(@, name, ContractFilename(c)) ELSE @,
        !.abis = IF Ran(c, 2) THEN Put(@, name, c["abi"]) ELSE @,
        !.bytecodes_init = IF Ran(c, 3) THEN Put(@, name, c["bin"]) ELSE @,
        !.bytecodes_runtime = IF Ran(c, 4) THEN Put(@, name, c["bin-runtime"]) ELSE @,
        !.srcmaps_init = IF Ran(c, 5) THEN Put(@, name, Split(c["srcmap"])) ELSE @,
        !.srcmaps_runtime =
            IF Ran(c, 6) THEN Put(@, name, Split(c["srcmap-runtime"])) ELSE @,
        !.libraries = IF Ran(c, 7) THEN Put(@, name, c["libraries"]) ELSE @,
        !.natspec =
            IF Ran(c, 7)
            THEN Put(@, name, Natspec(GetDoc(c, "userdoc"), GetDoc(c, "devdoc")))
            ELSE @]
\* LegacyDependencies without the "used" view
LegacyOmitsUsed(deps, c) ==
    IF Ran(c, 8) /\ c["is_dependency"]
    THEN deps \cup {ContractFilename(c).absolute, ContractFilename(c).relative,
                    ContractFilename(c).short}
    ELSE deps
\* _load_from_compile_legacy, lines 219-223
LegacyDependencies(deps, c) ==
    IF Ran(c, 8) /\ c["is_dependency"]
    THEN deps \cup {ContractFilename(c).absolute, ContractFilename(c).relative,
                    ContractFilename(c).short, ContractFilename(c).used}
    ELSE deps

\* load_from_compile, lines 248-268, up to the first KeyError
CurrentPopulate(unit, name, c) ==
    [unit EXCEPT
        !.contracts_names = @ \cup {name},
        !.contracts_filenames = IF Ran(c, 1) THEN Put(@, name, ContractFilename(c)) ELSE @,
        !.abis = IF Ran(c, 2) THEN Put(@, name, c["abi"]) ELSE @,
        !.bytecodes_init = IF Ran(c, 3) THEN Put(@, name, c["bin"]) ELSE @,
        !.bytecodes_runtime = IF Ran(c, 4) THEN Put(@, name, c["bin-runtime"]) ELSE @,
        !.srcmaps_init = IF Ran(c, 5) THEN Put(@, name, Split(c["srcmap"])) ELSE @,
        !.srcmaps_runtime =
            IF Ran(c, 6) THEN Put(@, name, Split(c["srcmap-runtime"])) ELSE @,
        !.libraries = IF Ran(c, 7) THEN Put(@, name, c["libraries"]) ELSE @,
        !.natspec =
            IF Ran(c, 7)
            THEN Put(@, name, Natspec(GetDoc(c, "userdoc"), GetDoc(c, "devdoc")))
            ELSE @]
\* load_from_compile, lines 270-274
CurrentDependencies(deps, c) ==
    IF Ran(c, 8) /\ c["is_dependency"]
    THEN deps \cup {ContractFilename(c).absolute, ContractFilename(c).relative,
                    ContractFilename(c).short, ContractFilename(c).used}
    ELSE deps

\* CompilerVersion(compiler=j["compiler"]["compiler"], version=..., optimized=...)
HasCompiler(j) ==
    /\ Has(j, "compiler")
    /\ \A k \in {"compiler", "version", "optimized"} : Has(j["compiler"], k)
CompilerOf(j) ==
    CompilerVersion(j["compiler"]["compiler"], j["compiler"]["version"],
                    j["compiler"]["optimized"])

---------------------------------------------------------------------------
(* Standard.compile and load_from_compile, statement by statement *)

KeyError == "KeyError"
ValueError == "ValueError"
AttributeError == "AttributeError"
FileNotFoundError == "FileNotFoundError"
InvalidCompilation == "InvalidCompilation"

Raise(exception) == hist' = [hist EXCEPT !.exc = exception]

\* locals of Standard.compile / load_from_compile
LoadLocals(doc) ==
    [doc |-> doc, units_todo |-> {}, key |-> None, todo |-> {},
     type |-> -1, unit_tests |-> <<>>]

\* standard.py 83-85 and 234-240: the file is read, package_name is set and
\* the schema is chosen
LoadBegin ==
    /\ pc = "std_compile"
    /\ LET doc == env.doc IN
        /\ cc' = [cc EXCEPT !.package_name =
                      IF Has(doc, "package") THEN doc["package"] ELSE None]
        /\ IF ~Has(doc, "compilation_units")
           THEN /\ loc' = LoadLocals(doc)
                /\ pc' = "legacy"
           ELSE /\ loc' = [LoadLocals(doc) EXCEPT
                              !.units_todo = DOMAIN doc["compilation_units"]]
                /\ pc' = IF DOMAIN doc["compilation_units"] = {}
                         THEN "filenames" ELSE "units"
    /\ UNCHANGED <<platform, env, hist, fn>>

\* standard.py 191-198: the unit "legacy" is created, then asts, then
\* compiler_version; a missing key ends the import with the unit registered
LegacyUnit ==
    /\ pc = "legacy"
    /\ LET doc == loc.doc
           ok == Has(doc, "asts") /\ HasCompiler(doc) /\ Has(doc, "contracts")
           unit == [NewUnit EXCEPT
                       !.asts = IF Has(doc, "asts") THEN doc["asts"] ELSE @,
                       !.compiler_version =
                           IF Has(doc, "asts") /\ HasCompiler(doc)
                           THEN CompilerOf(doc) ELSE @]
       IN
        /\ cc' = SetUnit(RegisterUnit(cc, "legacy"), "legacy", unit)
        /\ IF ok
           THEN /\ loc' = [loc EXCEPT !.key = "legacy", !.todo = DOMAIN doc["contracts"]]
                /\ pc' = IF DOMAIN doc["contracts"] = {}
                         THEN "filenames" ELSE "legacy_contracts"
                /\ UNCHANGED hist
           ELSE /\ pc' = "raised"
                /\ Raise(KeyError)
                /\ UNCHANGED loc
    /\ UNCHANGED <<platform, env, fn>>

\* standard.py 198-223: one iteration of the legacy contract loop
LegacyContract ==
    /\ pc = "legacy_contracts"
    /\ \E name \in loc.todo :
        LET c == loc.doc["contracts"][name]
            unit == cc.compilation_units["legacy"]
        IN
        /\ cc' = [SetUnit(cc, "legacy", LegacyPopulate(unit, name, c)) EXCEPT
                     !.dependencies = LegacyDependencies(@, c)]
        /\ IF FailAt(c) = 0
           THEN /\ loc' = [loc EXCEPT !.todo = @ \ {name}]
                /\ pc' = IF loc.todo = {name} THEN "filenames" ELSE "legacy_contracts"
                /\ UNCHANGED hist
           ELSE /\ pc' = "raised"
                /\ Raise(KeyError)
                /\ UNCHANGED loc
    /\ UNCHANGED <<platform, env, fn>>

\* standard.py 240-247: the next unit of compilation_units is created and its
\* compiler_version set
CurrentUnit ==
    /\ pc = "units"
    /\ \E key \in loc.units_todo :
        LET j == loc.doc["compilation_units"][key]
            ok == HasCompiler(j) /\ Has(j, "contracts")
            unit == [NewUnit EXCEPT
                        !.compiler_version = IF HasCompiler(j) THEN CompilerOf(j) ELSE @]
        IN
        /\ cc' = SetUnit(RegisterUnit(cc, key), key, unit)
        /\ IF ok
           THEN /\ loc' = [loc EXCEPT !.units_todo = @ \ {key}, !.key = key,
                                      !.todo = DOMAIN j["contracts"]]
                /\ pc' = IF DOMAIN j["contracts"] = {} THEN "asts" ELSE "contracts"
                /\ UNCHANGED hist
           ELSE /\ pc' = "raised"
                /\ Raise(KeyError)
                /\ UNCHANGED loc
    /\ UNCHANGED <<platform, env, fn>>

\* standard.py 247-274: one iteration of the contract loop of the unit
CurrentContract ==
    /\ pc = "contracts"
    /\ \E name \in loc.todo :
        LET c == loc.doc["compilation_units"][loc.key]["contracts"][name]
            unit == cc.compilation_units[loc.key]
        IN
        /\ cc' = [SetUnit(cc, loc.key, CurrentPopulate(unit, name, c)) EXCEPT
                     !.dependencies = CurrentDependencies(@, c)]
        /\ IF FailAt(c) = 0
           THEN /\ loc' = [loc EXCEPT !.todo = @ \ {name}]
                /\ pc' = IF loc.todo = {name} THEN "asts" ELSE "contracts"
                /\ UNCHANGED hist
           ELSE /\ pc' = "raised"
                /\ Raise(KeyError)
                /\ UNCHANGED loc
    /\ UNCHANGED <<platform, env, fn>>

\* standard.py 275: the unit's asts, after its contracts
CurrentAsts ==
    /\ pc = "asts"
    /\ LET j == loc.doc["compilation_units"][loc.key]
           unit == cc.compilation_units[loc.key]
       IN
        IF Has(j, "asts")
        THEN /\ cc' = SetUnit(cc, loc.key, [unit EXCEPT !.asts = j["asts"]])
             /\ pc' = IF loc.units_todo = {} THEN "filenames" ELSE "units"
             /\ UNCHANGED hist
        ELSE /\ pc' = "raised"
             /\ Raise(KeyError)
             /\ UNCHANGED cc
    /\ UNCHANGED <<platform, env, loc, fn>>

\* the union of the contracts_filenames values of every unit of the session
AllContractFilenames(session) ==
    UNION {Values(session.compilation_units[k].contracts_filenames) :
              k \in DOMAIN session.compilation_units}

\* standard.py 277-283: filenames, working_dir, and the returned pair
FinishKeepsFilenames(session, doc) ==
    [session EXCEPT
        !.working_dir = IF Has(doc, "working_dir") THEN doc["working_dir"] ELSE @]
FinishSession(session, doc) ==
    [session EXCEPT
        !.filenames = @ \cup AllContractFilenames(session),
        !.working_dir = IF Has(doc, "working_dir") THEN doc["working_dir"] ELSE @]
LoadFinish ==
    /\ pc = "filenames"
    /\ LET doc == loc.doc IN
        /\ cc' = FinishSession(cc, doc)
        /\ IF Has(doc, "working_dir") /\ Has(doc, "type")
           THEN /\ loc' = [loc EXCEPT
                              !.type = doc["type"],
                              !.unit_tests = IF Has(doc, "unit_tests")
                                             THEN doc["unit_tests"] ELSE <<>>]
                /\ pc' = "resolve"
                /\ UNCHANGED hist
           ELSE /\ pc' = "raised"
                /\ Raise(KeyError)
                /\ UNCHANGED loc
    /\ UNCHANGED <<platform, env, fn>>

\* standard.py 86-90: PlatformType(underlying_type) raises ValueError for an
\* integer that is no member of the enumeration; a member that no registered
\* platform carries resolves to Standard
IsPlatformType(tag) == tag \in {TypeNotImplemented, TypeDapp, TypeWaffle, TypeStandard}
ResolveAlwaysStandard(tag) == "Standard"
ResolvePlatform(tag) ==
    IF \E p \in RegisteredPlatforms : TypeOf(p) = tag
    THEN CHOOSE p \in RegisteredPlatforms : TypeOf(p) = tag
    ELSE "Standard"
StandardResolve ==
    /\ pc = "resolve"
    /\ IF IsPlatformType(loc.type)
       THEN /\ platform' = [platform EXCEPT !.underlying = ResolvePlatform(loc.type),
                                            !.unit_tests = loc.unit_tests]
            /\ pc' = "done"
            /\ UNCHANGED hist
       ELSE /\ pc' = "raised"
            /\ Raise(ValueError)
            /\ UNCHANGED platform
    /\ UNCHANGED <<cc, env, loc, fn>>

---------------------------------------------------------------------------
(* The documents Standard.compile is given *)

AllNames == <<"A", "B", "C", "D">>
Names == {AllNames[i] : i \in 1..MaxContracts}

FnDep == Filename(<<"/", "proj", "node_modules", "D.sol">>, <<"node_modules", "D.sol">>,
                  <<"D.sol">>, <<".", "node_modules", "D.sol">>)
FnOwn == Filename(<<"/", "proj", "contracts", "A.sol">>, <<"contracts", "A.sol">>,
                  <<"A.sol">>, <<"contracts", "A.sol">>)
FnLib == Filename(<<"/", "a", "Dep.sol">>, <<"lib", "Dep.sol">>,
                  <<"Dep.sol">>, <<"Dep.sol">>)

\* the "filenames" object of a contract
FilenamesJson(f) ==
    [absolute |-> f.absolute, used |-> f.used, short |-> f.short, relative |-> f.relative]

ContractJson(abi, bin, srcmap, srcmapRuntime, f, libraries, isDependency) ==
    [abi |-> abi, bin |-> bin, srcmap |-> srcmap, filenames |-> FilenamesJson(f),
     libraries |-> libraries, is_dependency |-> isDependency]
    @@ ("bin-runtime" :> bin) @@ ("srcmap-runtime" :> srcmapRuntime)
WithDocs(c, userdoc, devdoc) == c @@ [userdoc |-> userdoc, devdoc |-> devdoc]
\* an object without one key of its "filenames" object
DropView(c, view) == [c EXCEPT !["filenames"] = Drop(@, view)]

SrcmapAB == <<"0", ";", "1">>
SrcmapB == <<"1">>
SrcmapEmpty == <<>>
SrcmapSemi == <<";">>

CDep == WithDocs(ContractJson("abi1", "6001", SrcmapAB, SrcmapB, FnDep,
                              [__Lib__ |-> "Lib"], TRUE), "user", "dev")
COwn == ContractJson("abi2", "6002", SrcmapEmpty, SrcmapSemi, FnOwn, EmptyDict, FALSE)
CLib == ContractJson("abi3", "6003", SrcmapB, SrcmapB, FnLib, EmptyDict, TRUE)
CShared == ContractJson("abi4", "6004", SrcmapB, SrcmapAB, FnDep, EmptyDict, FALSE)
\* well-formed contract objects, and two with a required key missing
ContractBodies ==
    {CDep, COwn, CLib, CShared} \cup {DropView(CDep, "absolute"), Drop(COwn, "abi")}

\* every mapping from some of the contract names to bodies
ContractMaps(bodies) == UNION {[S -> bodies] : S \in SUBSET Names}

CompilerJson == [compiler |-> "solc", version |-> "0.8.0", optimized |-> PyTrue]
UnitJson(compiler, contracts) ==
    [compiler |-> compiler, asts |-> (FnOwn.absolute :> "ast1"), contracts |-> contracts]
UnitBodies(bodies) ==
    {UnitJson(compiler, contracts) :
        compiler \in {CompilerJson, Drop(CompilerJson, "version")},
        contracts \in ContractMaps(bodies)}
\* a second unit of a current-schema document
SecondUnit == UnitJson([CompilerJson EXCEPT !.optimized = None], [A |-> CLib])

\* the top-level fields beside the units
MetaFull(type) ==
    [package |-> "pkg", working_dir |-> "/proj", type |-> type,
     unit_tests |-> <<"dapp test">>]
UnknownType == 55
Metas ==
    {MetaFull(TypeDapp), MetaFull(TypeStandard), MetaFull(TypeNotImplemented),
     MetaFull(UnknownType), [working_dir |-> "/proj", type |-> TypeWaffle],
     Drop(MetaFull(TypeDapp), "working_dir")}

LegacyDocs(bodies) == {meta @@ unit : meta \in Metas, unit \in UnitBodies(bodies)}
CurrentDocs(bodies) ==
    {meta @@ [compilation_units |-> units] :
        meta \in Metas,
        units \in {[u1 |-> unit] : unit \in UnitBodies(bodies)}
                  \cup {[u1 |-> unit, u2 |-> SecondUnit] : unit \in UnitBodies(bodies)}
                  \cup {EmptyDict}}

\* the legacy document's content wrapped in a single unit of the current schema
WrapLegacy(doc, key) ==
    LET unit == [k \in DOMAIN doc \cap {"compiler", "asts", "contracts"} |-> doc[k]]
        meta == [k \in DOMAIN doc \ {"compiler", "asts", "contracts"} |-> doc[k]]
    IN meta @@ ("compilation_units" :> (key :> unit))

NoHistory == [runs |-> 0, exports |-> <<>>, exc |-> None, orig |-> <<>>]
Idle == [op |-> None]

---------------------------------------------------------------------------
(* load_from_compile on a well-formed current-schema document, as one     *)
(* function of the document: the loops of lines 240-275 folded over the   *)
(* units and their contracts                                              *)

RECURSIVE FoldContracts(_, _, _, _)
FoldContracts(session, key, contracts, todo) ==
    IF todo = {} THEN session
    ELSE LET name == CHOOSE n \in todo : TRUE
             c == contracts[name]
             unit == session.compilation_units[key]
         IN FoldContracts(
                [SetUnit(session, key, CurrentPopulate(unit, name, c)) EXCEPT
                    !.dependencies = CurrentDependencies(@, c)],
                key, contracts, todo \ {name})

RECURSIVE FoldUnits(_, _, _)
FoldUnits(session, units, todo) ==
    IF todo = {} THEN session
    ELSE LET key == CHOOSE k \in todo : TRUE
             j == units[key]
             created == SetUnit(RegisterUnit(session, key), key,
                                [NewUnit EXCEPT !.compiler_version = CompilerOf(j)])
             filled == FoldContracts(created, key, j["contracts"], DOMAIN j["contracts"])
             unit == filled.compilation_units[key]
         IN FoldUnits(SetUnit(filled, key, [unit EXCEPT !.asts = j["asts"]]),
                      units, todo \ {key})

ImportCurrent(session, doc) ==
    FinishSession(
        FoldUnits([session EXCEPT !.package_name =
                       IF Has(doc, "package") THEN doc["package"] ELSE None],
                  doc["compilation_units"], DOMAIN doc["compilation_units"]),
        doc)

---------------------------------------------------------------------------
(* Properties of the import *)

IsLegacy(doc) == ~Has(doc, "compilation_units")

\* the contract objects of a document, of either schema
DocContracts(doc) ==
    IF IsLegacy(doc)
    THEN IF Has(doc, "contracts") THEN Values(doc["contracts"]) ELSE {}
    ELSE UNION {Values(doc["compilation_units"][k]["contracts"]) :
                   k \in DOMAIN doc["compilation_units"]}

\* load_from_compile has returned its pair to Standard.compile
LoadReturned ==
    \/ pc \in {"resolve", "done"}
    \/ pc = "raised" /\ hist.exc = ValueError

\* C2: a document without compilation_units imports into exactly one unit,
\* keyed "legacy", and the session is the one the current-schema import
\* builds from the same contracts, asts and compiler wrapped in a single unit
C2_LegacyCompatibility ==
    (LoadReturned /\ IsLegacy(env.doc)) =>
        /\ DOMAIN cc.compilation_units = {"legacy"}
        /\ cc = ImportCurrent(FreshSession, WrapLegacy(env.doc, "legacy"))
C2_Witness ==
    /\ pc = "done" /\ IsLegacy(env.doc)
    /\ Cardinality(cc.compilation_units["legacy"].contracts_names) >= 2
    /\ cc.dependencies # {}
    /\ \E n \in cc.compilation_units["legacy"].contracts_names :
           Len(cc.compilation_units["legacy"].srcmaps_init[n]) = 2

\* C5: after load_from_compile the dependency set holds the four views of
\* every contract flagged is_dependency, and nothing else
DependencyViews(doc) ==
    UNION {FourViews(ContractFilename(c)) : c \in {d \in DocContracts(doc) : d["is_dependency"]}}
C5_DependencyPropagation ==
    LoadReturned => cc.dependencies = DependencyViews(env.doc)
C5_Witness ==
    /\ LoadReturned
    /\ \E c \in DocContracts(env.doc) :
          /\ c["is_dependency"]
          /\ Cardinality(FourViews(ContractFilename(c))) = 4
          /\ FourViews(ContractFilename(c)) \subseteq cc.dependencies
    /\ \E c \in DocContracts(env.doc) :
          /\ ~c["is_dependency"]
          /\ FourViews(ContractFilename(c)) \cap cc.dependencies = {}

---------------------------------------------------------------------------
(* is_dependency of the three platforms.  Each returns the boolean and    *)
(* the platform's _cached_dependencies after the call.                    *)

Parts(path) == {path[i] : i \in 1..Len(path)}

\* dapp.py 137-148: the cache receives the node_modules test, the first
\* call returns the lib test
dapp_is_dependency(cached, path) ==
    IF Has(cached, path)
    THEN [ret |-> cached[path], cached |-> cached]
    ELSE [ret |-> "lib" \in Parts(path),
          cached |-> Put(cached, path, "node_modules" \in Parts(path))]

\* waffle.py 245-256
WaffleNegatesCached(cached, path) ==
    IF Has(cached, path)
    THEN [ret |-> ~cached[path], cached |-> cached]
    ELSE [ret |-> "node_modules" \in Parts(path),
          cached |-> Put(cached, path, "node_modules" \in Parts(path))]
waffle_is_dependency(cached, path) ==
    IF Has(cached, path)
    THEN [ret |-> cached[path], cached |-> cached]
    ELSE [ret |-> "node_modules" \in Parts(path),
          cached |-> Put(cached, path, "node_modules" \in Parts(path))]

\* standard.py 107-115
standard_is_dependency(cached, path) == [ret |-> FALSE, cached |-> cached]

\* is_dependency of the platform class `kind`
PlatformIsDependency(kind, cached, path) ==
    CASE kind = "Dapp" -> dapp_is_dependency(cached, path)
      [] kind = "Waffle" -> waffle_is_dependency(cached, path)
      [] kind = "Standard" -> standard_is_dependency(cached, path)

---------------------------------------------------------------------------
(* Properties of the import: failures *)

WellFormedUnit(j) ==
    /\ HasCompiler(j) /\ Has(j, "asts") /\ Has(j, "contracts")
    /\ \A n \in DOMAIN j["contracts"] : FailAt(j["contracts"][n]) = 0
\* no key that load_from_compile subscripts is missing
WellFormedDoc(doc) ==
    /\ Has(doc, "working_dir") /\ Has(doc, "type")
    /\ IF IsLegacy(doc) THEN WellFormedUnit(doc)
       ELSE \A k \in DOMAIN doc["compilation_units"] :
                WellFormedUnit(doc["compilation_units"][k])

CompileEnded == pc \in {"done", "raised"}

\* C3: a document with a required key missing fails with
\* MalformedArtifactError and leaves no unit, filename or dependency of the
\* document in the session
C3_MalformedRejected ==
    (CompileEnded /\ ~WellFormedDoc(env.doc)) =>
        /\ pc = "raised"
        /\ hist.exc = "MalformedArtifactError"
        /\ cc.compilation_units = EmptyDict
        /\ cc.filenames = {}
        /\ cc.dependencies = {}

\* the paths a document names
DocPaths(doc) ==
    UNION {FourViews(ContractFilename(c)) : c \in {d \in DocContracts(doc) : FailAt(d) = 0}}

\* C4: a type tag that no registered platform carries, whatever the integer,
\* does not make Standard.compile raise; the underlying platform is Standard,
\* whose is_dependency is false for every path
C4_AdapterFallback ==
    (/\ CompileEnded /\ hist.exc # KeyError
     /\ ~\E p \in RegisteredPlatforms : TypeOf(p) = env.doc["type"]) =>
        /\ pc = "done"
        /\ platform.underlying = "Standard"
        /\ \A path \in DocPaths(env.doc) :
               ~PlatformIsDependency(platform.underlying, platform.cached, path).ret

---------------------------------------------------------------------------
(* What the build tools leave behind *)

\* contracts in one build output
MaxBuildContracts == 3
BuildNames == {AllNames[i] : i \in 1..MaxBuildContracts}

\* the working directory of the compiled project (self._target)
Target == "/proj"
TargetParts == <<"/", "proj">>

\* a version string is the sequence of its tokens; re.findall(r"\d+\.\d+\.\d+", s)
\* keeps the tokens that are version numbers
IsVersionNumber(token) == token \in {"0.8.0", "0.7.6"}
FindVersions(s) == SelectSeq(s, IsVersionNumber)
RawVersion == <<"0.8.0", "+commit.c7dfd78e">>

\* convert_filename(raw, relative_to_short, crytic_compile, working_dir=target)
\* for a raw path relative to the working directory: the four views of
\* section 4.1 of the specification
dapp_convert_filename(raw) ==
    Filename(TargetParts \o raw, raw, dapp_relative_to_short(raw), raw)
waffle_convert_filename(raw) ==
    Filename(TargetParts \o raw, raw, waffle_relative_to_short(raw), raw)

\* extract_name("file.sol:Contract") = "Contract": an original name is <<name>>
\* or <<file, name>>
extract_name(original) == original[Len(original)]

EvmJson(bin, srcmap, binRuntime, srcmapRuntime) ==
    [bytecode |-> [object |-> bin, sourceMap |-> srcmap],
     deployedBytecode |-> [object |-> binRuntime, sourceMap |-> srcmapRuntime]]

\* the "metadata" of a solc contract output, parsed
MetadataJson(enabled) ==
    [compiler |-> [version |-> RawVersion],
     settings |-> [optimizer |-> [enabled |-> enabled]]]
MetadataNoOptimizer == [compiler |-> [version |-> RawVersion]]

\* the entries of out/dapp.sol.json "contracts": file, original name, info
DappInfo(file, info) == [file |-> file, info |-> info]
DOptimized ==
    DappInfo(<<"src", "A.sol">>,
             [abi |-> "abi1", evm |-> EvmJson("6001", SrcmapAB, "6011", SrcmapB),
              metadata |-> MetadataJson(TRUE), userdoc |-> "user", devdoc |-> "dev"])
DPlain ==
    DappInfo(<<"lib", "ds", "D.sol">>,
             [abi |-> "abi2", evm |-> EvmJson("6002", SrcmapB, "6012", SrcmapB),
              metadata |-> MetadataJson(FALSE)])
DNoSetting ==
    DappInfo(<<"src", "A.sol">>,
             [abi |-> "abi3", evm |-> EvmJson("6003", SrcmapEmpty, "6013", SrcmapSemi),
              metadata |-> MetadataNoOptimizer])
DNoMetadata ==
    DappInfo(<<"src", "B.sol">>,
             [abi |-> "abi4", evm |-> EvmJson("6004", SrcmapB, "6014", SrcmapAB)])

\* out/dapp.sol.json: contracts maps a contract name to its file and info,
\* sources maps each file to its ast
SourcesOf(contracts) ==
    [f \in {contracts[n].file : n \in DOMAIN contracts} |-> [ast |-> <<"ast">> \o f]]
DappJson(hasVersion, contracts) ==
    IF hasVersion
    THEN [version |-> RawVersion, contracts |-> contracts, sources |-> SourcesOf(contracts)]
    ELSE [contracts |-> contracts, sources |-> SourcesOf(contracts)]
DappOutputs ==
    {DappJson(hasVersion, contracts) :
        hasVersion \in BOOLEAN,
        contracts \in UNION {[S -> {DOptimized, DPlain, DNoSetting, DNoMetadata}] : S \in SUBSET BuildNames}}
\* the output of an earlier build
StaleDappJson == DappJson(TRUE, [A |-> DPlain])

\* no file
Absent == [absent |-> TRUE]

\* the *meta.json files _get_version globs
MetaFiles == {<<>>, <<MetadataJson(TRUE)>>, <<MetadataNoOptimizer, MetadataJson(FALSE)>>}

\* how the build command ends: exit status 0 with fresh output, a non-zero
\* exit status with no output written, or the command cannot be spawned
ToolOutcomes == {"ok", "nonzero", "oserror"}

\* the inputs taken: an ignored compile has no tool outcome, a fresh build
\* overwrites the earlier output, and the meta files vary for one build only
DappInputs ==
    {e \in {[kind |-> "Dapp", ignore |-> ignore, tool |-> tool, stale |-> stale,
              build |-> build, meta |-> meta] :
                ignore \in BOOLEAN, tool \in ToolOutcomes, stale \in BOOLEAN,
                build \in DappOutputs, meta \in MetaFiles} :
        /\ e.ignore => e.tool = "ok"
        /\ (~e.ignore /\ e.tool = "ok") => ~e.stale
        /\ e.meta # <<>> => e.build = DappJson(FALSE, [A |-> DOptimized])}

---------------------------------------------------------------------------
(* Dapp.compile, statement by statement *)

\* the list findall returns, as Python prints it (the version strings of the
\* model hold one version number)
ListOf(token) ==
    CASE token = "0.8.0" -> "['0.8.0']"
      [] token = "0.7.6" -> "['0.7.6']"

\* dapp.py 181-205: the first meta file decides; version is the list findall
\* returns, optimized is None or a bool
RECURSIVE GetVersionFrom(_, _, _)
GetVersionFrom(files, version, optimized) ==
    IF files = <<>> THEN CompilerVersion("solc", version, optimized)
    ELSE LET config == Head(files)
             found == IF Has(config, "compiler") /\ Has(config["compiler"], "version")
                      THEN ListOf(FindVersions(config["compiler"]["version"])[1])
                      ELSE version
             enabled == IF /\ Has(config, "settings")
                           /\ Has(config["settings"], "optimizer")
                           /\ Has(config["settings"]["optimizer"], "enabled")
                        THEN PyBool(config["settings"]["optimizer"]["enabled"])
                        ELSE optimized
         IN IF version = None
            THEN GetVersionFrom(Tail(files), found, enabled)
            ELSE GetVersionFrom(Tail(files), version, optimized)
dapp_get_version(files) == GetVersionFrom(files, None, None)

\* the output file the compile step reads: a fresh build replaces it, a
\* failed or skipped build leaves what was there
OutputAfterRun(e) ==
    IF ~e.ignore /\ e.tool = "ok" THEN e.build
    ELSE IF e.stale THEN StaleDappJson
    ELSE Absent

\* dapp.py 51-57 and _run_dapp 159-178: the exit status of the command is
\* not read; only a failure to spawn it raises
DappRun ==
    /\ pc = "dapp_compile"
    /\ IF env.ignore
       THEN /\ pc' = "dapp_unit"
            /\ UNCHANGED hist
       ELSE IF env.tool = "oserror"
       THEN /\ pc' = "raised"
            /\ hist' = [hist EXCEPT !.runs = @ + 1, !.exc = InvalidCompilation]
       ELSE /\ pc' = "dapp_unit"
            /\ hist' = [hist EXCEPT !.runs = @ + 1]
    /\ loc' = [output |-> OutputAfterRun(env), optimized |-> FALSE, version |-> None,
               todo |-> {}]
    /\ UNCHANGED <<cc, platform, env, fn>>

\* dapp.py 59-61: the unit is created and given _get_version's result
DappUnit ==
    /\ pc = "dapp_unit"
    /\ cc' = SetUnit(RegisterUnit(cc, Target), Target,
                     [NewUnit EXCEPT !.compiler_version = dapp_get_version(env.meta)])
    /\ pc' = "dapp_open"
    /\ UNCHANGED <<platform, env, loc, hist, fn>>

\* dapp.py 63-70: out/dapp.sol.json is opened and its "version" read
DappOpen ==
    /\ pc = "dapp_open"
    /\ IF loc.output = Absent
       THEN /\ pc' = "raised"
            /\ Raise(FileNotFoundError)
            /\ UNCHANGED loc
       ELSE /\ loc' = [loc EXCEPT
                          !.optimized = FALSE,
                          !.version = IF Has(loc.output, "version")
                                      THEN FindVersions(loc.output["version"])[1]
                                      ELSE None,
                          !.todo = DOMAIN loc.output["contracts"]]
            /\ pc' = IF DOMAIN loc.output["contracts"] = {}
                     THEN "dapp_sources" ELSE "dapp_contracts"
            /\ UNCHANGED hist
    /\ UNCHANGED <<cc, platform, env, fn>>

\* dapp.py 74-81
HasOptimizerFlag(info) ==
    /\ Has(info, "metadata")
    /\ Has(info["metadata"], "settings")
    /\ Has(info["metadata"]["settings"], "optimizer")
    /\ Has(info["metadata"]["settings"]["optimizer"], "enabled")
OptimizerFlag(info) == info["metadata"]["settings"]["optimizer"]["enabled"]
OptimizedLast(optimized, info) ==
    IF HasOptimizerFlag(info) THEN OptimizerFlag(info) ELSE optimized
OptimizedOr(optimized, info) ==
    IF HasOptimizerFlag(info) THEN optimized \/ OptimizerFlag(info) ELSE optimized

\* dapp.py 82-102: the filename stored is the key of "contracts", a str,
\* and both source maps are read from evm.bytecode.sourceMap
DappPopulate(unit, name, entry) ==
    [unit EXCEPT
        !.contracts_names = @ \cup {name},
        !.contracts_filenames = Put(@, name, Str(entry.file)),
        !.abis = Put(@, name, entry.info["abi"]),
        !.bytecodes_init = Put(@, name, entry.info["evm"]["bytecode"]["object"]),
        !.bytecodes_runtime =
            Put(@, name, entry.info["evm"]["deployedBytecode"]["object"]),
        !.srcmaps_init = Put(@, name, Split(entry.info["evm"]["bytecode"]["sourceMap"])),
        !.srcmaps_runtime =
            Put(@, name, Split(entry.info["evm"]["bytecode"]["sourceMap"])),
        !.natspec = Put(@, name, Natspec(GetDoc(entry.info, "userdoc"),
                                         GetDoc(entry.info, "devdoc")))]

\* dapp.py 72-106: one iteration of the contract loops; without a version so
\* far the metadata is read again, and a contract without metadata raises
DappContract ==
    /\ pc = "dapp_contracts"
    /\ \E original \in loc.todo :
        LET entry == loc.output["contracts"][original]
            \* the keys of a solc output are bare contract names
            name == extract_name(<<original>>)
        IN
        /\ cc' = SetUnit(cc, Target,
                         DappPopulate(cc.compilation_units[Target], name, entry))
        /\ IF loc.version = None /\ ~Has(entry.info, "metadata")
           THEN /\ pc' = "raised"
                /\ Raise(KeyError)
                /\ loc' = [loc EXCEPT !.optimized = OptimizedOr(@, entry.info)]
           ELSE /\ loc' = [loc EXCEPT
                              !.optimized = OptimizedOr(@, entry.info),
                              !.version =
                                  IF @ = None
                                  THEN FindVersions(
                                           entry.info["metadata"]["compiler"]["version"])[1]
                                  ELSE @,
                              !.todo = @ \ {original}]
                /\ pc' = IF loc.todo = {original} THEN "dapp_sources" ELSE "dapp_contracts"
                /\ UNCHANGED hist
    /\ UNCHANGED <<platform, env, fn>>

\* dapp.py 108-113: every source is resolved, registered and its ast stored
DappAsts(asts, sources) ==
    LET resolved == {dapp_convert_filename(f).absolute : f \in DOMAIN sources}
    IN [p \in DOMAIN asts \cup resolved |->
           IF p \in resolved
           THEN sources[SubSeq(p, Len(TargetParts) + 1, Len(p))]["ast"]
           ELSE asts[p]]
DappSources ==
    /\ pc = "dapp_sources"
    /\ LET sources == loc.output["sources"]
           unit == cc.compilation_units[Target]
       IN cc' = [SetUnit(cc, Target, [unit EXCEPT !.asts = DappAsts(@, sources)])
                 EXCEPT !.filenames =
                     @ \cup {dapp_convert_filename(f) : f \in DOMAIN sources}]
    /\ pc' = "dapp_finish"
    /\ UNCHANGED <<platform, env, loc, hist, fn>>

\* dapp.py 115-117: compiler_version is assigned again
DappFinish ==
    /\ pc = "dapp_finish"
    /\ cc' = SetUnit(cc, Target,
                     [cc.compilation_units[Target] EXCEPT !.compiler_version =
                         CompilerVersion("solc", loc.version, PyBool(loc.optimized))])
    /\ pc' = "done"
    /\ UNCHANGED <<platform, env, loc, hist, fn>>

---------------------------------------------------------------------------
(* Waffle.compile, statement by statement *)

\* the entries of Combined-Json.json "contracts": the key "file:name" is the
\* pair <<file, name>> that contract.split(":") gives
WaffleInfo(file, info) == [file |-> file, info |-> info]
WOwn ==
    WaffleInfo(<<"contracts", "A.sol">>,
               [abi |-> "abi1", evm |-> EvmJson("6001", SrcmapAB, "6011", SrcmapB),
                userdoc |-> "user", devdoc |-> "dev"])
WDep ==
    WaffleInfo(<<"node_modules", "oz", "D.sol">>,
               [abi |-> "abi2", evm |-> EvmJson("6002", SrcmapEmpty, "6012", SrcmapSemi)])
WOther ==
    WaffleInfo(<<"src", "B.sol">>,
               [abi |-> "abi3", evm |-> EvmJson("6003", SrcmapB, "6013", SrcmapB)])

WaffleSourcesOf(contracts) ==
    [f \in {contracts[n].file : n \in DOMAIN contracts} |-> [AST |-> <<"ast">> \o f]]
WaffleJson(contracts) ==
    [contracts |-> contracts, sources |-> WaffleSourcesOf(contracts)]
WaffleOutputs ==
    {WaffleJson(contracts) : contracts \in UNION {[S -> {WOwn, WDep, WOther}] : S \in SUBSET BuildNames}}
StaleWaffleJson == WaffleJson([A |-> WDep])

\* the build directory does not exist
NoDirectory == [nodir |-> TRUE]

\* the content of the config file: a JSON object, or JavaScript
ModuleExports == [module_exports |-> TRUE]
WaffleConfigs ==
    {[compilerVersion |-> "0.8.0"],
     [solcVersion |-> RawVersion],
     [compilerType |-> "dockerized-solc"] @@ ("docker-tag" :> "0.7.6"),
     [compiler |-> "solc-js", compilerType |-> "vyper"],
     EmptyDict,
     ModuleExports}
\* what `solc --version` and `solcjs --version` print
SolcVersionOutput == <<"Version:", "0.8.0", "+commit.c7dfd78e">>

\* the inputs taken: an ignored compile has no tool outcome, a fresh build
\* overwrites the earlier output, and the config varies for one build only
WaffleInputs ==
    {e \in {[kind |-> "Waffle", ignore |-> ignore, tool |-> tool, stale |-> stale,
              build |-> build, config |-> config] :
                ignore \in BOOLEAN, tool \in ToolOutcomes,
                stale \in {"nodir", "nofile", "present"},
                build \in WaffleOutputs, config \in WaffleConfigs} :
        /\ e.ignore => e.tool = "ok"
        /\ (~e.ignore /\ e.tool = "ok") => e.stale = "nodir"
        /\ e.config # [compilerVersion |-> "0.8.0"] =>
               (e.build = WaffleJson([A |-> WOwn]) /\ ~e.ignore /\ e.tool = "ok")}

WaffleOutputAfterRun(e) ==
    IF ~e.ignore /\ e.tool = "ok" THEN e.build
    ELSE IF e.stale = "present" THEN StaleWaffleJson
    ELSE IF e.stale = "nofile" THEN Absent
    ELSE NoDirectory

\* waffle.py 61-78: "compilerType" overrides "compiler", the default is native
WaffleCompiler(config) ==
    IF Has(config, "compilerType") THEN config["compilerType"]
    ELSE IF Has(config, "compiler") THEN config["compiler"]
    ELSE "native"

\* waffle.py 282-322, _get_version: the version, or the exception raised
waffle_get_version(compiler, config) ==
    IF Has(config, "solcVersion")
    THEN [version |-> FindVersions(config["solcVersion"])[1], exc |-> None]
    ELSE IF compiler = "dockerized-solc"
    THEN IF Has(config, "docker-tag")
         THEN [version |-> config["docker-tag"], exc |-> None]
         ELSE [version |-> "", exc |-> KeyError]
    ELSE IF compiler \in {"native", "solc-js"}
    THEN [version |-> FindVersions(SolcVersionOutput)[1], exc |-> None]
    ELSE [version |-> "", exc |-> InvalidCompilation]

\* waffle.py 80-83
WaffleVersion(config) ==
    IF Has(config, "compilerVersion")
    THEN [version |-> config["compilerVersion"], exc |-> None]
    ELSE waffle_get_version(WaffleCompiler(config), config)

\* waffle.py 50-137: the config file is read and the compiler and its version
\* are found; _load_config rejects a JavaScript config
WaffleConfig ==
    /\ pc = "waffle_compile"
    /\ IF env.config = ModuleExports
       THEN /\ pc' = "raised"
            /\ Raise(InvalidCompilation)
            /\ UNCHANGED loc
       ELSE IF WaffleVersion(env.config).exc # None
       THEN /\ pc' = "raised"
            /\ Raise(WaffleVersion(env.config).exc)
            /\ UNCHANGED loc
       ELSE /\ loc' = [compiler |-> WaffleCompiler(env.config),
                       version |-> WaffleVersion(env.config).version,
                       output |-> Absent, todo |-> {}]
            /\ pc' = "waffle_run"
            /\ UNCHANGED hist
    /\ UNCHANGED <<cc, platform, env, fn>>

\* waffle.py 139-161: the exit status of the command is not read; only a
\* failure to spawn it raises
WaffleRun ==
    /\ pc = "waffle_run"
    /\ IF env.ignore
       THEN /\ pc' = "waffle_output"
            /\ UNCHANGED hist
       ELSE IF env.tool = "oserror"
       THEN /\ pc' = "raised"
            /\ hist' = [hist EXCEPT !.runs = @ + 1, !.exc = InvalidCompilation]
       ELSE /\ pc' = "waffle_output"
            /\ hist' = [hist EXCEPT !.runs = @ + 1]
    /\ loc' = [loc EXCEPT !.output = WaffleOutputAfterRun(env)]
    /\ UNCHANGED <<cc, platform, env, fn>>

\* waffle.py 163-175: the build directory and Combined-Json.json must exist;
\* the unit is created
WaffleOutput ==
    /\ pc = "waffle_output"
    /\ IF loc.output \in {NoDirectory, Absent}
       THEN /\ pc' = "raised"
            /\ Raise(InvalidCompilation)
            /\ UNCHANGED <<cc, loc>>
       ELSE /\ cc' = RegisterUnit(cc, Target)
            /\ loc' = [loc EXCEPT !.todo = DOMAIN loc.output["contracts"]]
            /\ pc' = IF DOMAIN loc.output["contracts"] = {}
                     THEN "waffle_finish" ELSE "waffle_contracts"
            /\ UNCHANGED hist
    /\ UNCHANGED <<platform, env, fn>>

\* waffle.py 178-208
WafflePopulate(unit, name, filename, info, ast) ==
    [unit EXCEPT
        !.asts = Put(@, filename.absolute, ast),
        !.contracts_filenames = Put(@, name, filename),
        !.contracts_names = @ \cup {name},
        !.abis = Put(@, name, info["abi"]),
        !.natspec = Put(@, name, Natspec(GetDoc(info, "userdoc"), GetDoc(info, "devdoc"))),
        !.bytecodes_init = Put(@, name, info["evm"]["bytecode"]["object"]),
        !.srcmaps_init = Put(@, name, Split(info["evm"]["bytecode"]["sourceMap"])),
        !.bytecodes_runtime = Put(@, name, info["evm"]["deployedBytecode"]["object"]),
        !.srcmaps_runtime =
            Put(@, name, Split(info["evm"]["deployedBytecode"]["sourceMap"]))]

\* waffle.py 177-208: one iteration of the contract loop
WaffleContract ==
    /\ pc = "waffle_contracts"
    /\ \E key \in loc.todo :
        LET entry == loc.output["contracts"][key]
            contract == <<entry.file, key>>
            filename == waffle_convert_filename(contract[1])
            ast == loc.output["sources"][contract[1]]["AST"]
        IN
        /\ cc' = [SetUnit(cc, Target,
                          WafflePopulate(cc.compilation_units[Target], contract[2],
                                         filename, entry.info, ast))
                  EXCEPT !.filenames = @ \cup {filename}]
        /\ loc' = [loc EXCEPT !.todo = @ \ {key}]
        /\ pc' = IF loc.todo = {key} THEN "waffle_finish" ELSE "waffle_contracts"
    /\ UNCHANGED <<platform, env, hist, fn>>

\* waffle.py 173 and 210-212: optimized stays None
WaffleFinish ==
    /\ pc = "waffle_finish"
    /\ cc' = SetUnit(cc, Target,
                     [cc.compilation_units[Target] EXCEPT !.compiler_version =
                         CompilerVersion(loc.compiler, loc.version, None)])
    /\ pc' = "done"
    /\ UNCHANGED <<platform, env, loc, hist, fn>>

---------------------------------------------------------------------------
(* generate_standard_export *)

\* CompilationUnit.libraries_names_and_patterns: the libraries recorded for
\* the contract, none when the platform recorded nothing
libraries_names_and_patterns(unit, name) ==
    IF Has(unit.libraries, name) THEN unit.libraries[name] ELSE EmptyDict

\* CryticCompile.is_dependency: a path of the dependency set is a dependency,
\* any other path is the platform's to decide
session_is_dependency(session, kind, cached, path) ==
    IF path \in session.dependencies
    THEN [ret |-> TRUE, cached |-> cached]
    ELSE PlatformIsDependency(kind, cached, path)

\* platform._guessed_tests(): dapp.py 150-156, waffle.py 258-264, standard.py 117-118
guessed_tests(plat) ==
    CASE plat.kind = "Dapp" -> <<"dapp test">>
      [] plat.kind = "Waffle" -> <<"npx mocha">>
      [] plat.kind = "Standard" -> plat.unit_tests

\* platform_type_used: standard.py 128-130; the platform's own TYPE otherwise
platform_type_used(plat) ==
    IF plat.kind = "Standard" THEN TypeOf(plat.underlying) ELSE TypeOf(plat.kind)

\* standard.py 144-162: the exception the contract's entry raises, if any: a
\* str filename has no attribute "absolute"
ExportError(unit, name) ==
    IF ~Has(unit.contracts_filenames, name) THEN KeyError
    ELSE IF \E mapping \in {unit.abis, unit.bytecodes_init, unit.bytecodes_runtime,
                            unit.srcmaps_init, unit.srcmaps_runtime} :
                ~Has(mapping, name)
         THEN KeyError
    ELSE IF ~IsFilename(unit.contracts_filenames[name]) THEN AttributeError
    ELSE IF ~Has(unit.natspec, name) THEN KeyError
    ELSE None

\* standard.py 144-162: the entry of one contract
ExportContract(session, kind, cached, unit, name) ==
    LET filename == unit.contracts_filenames[name] IN
    [abi |-> unit.abis[name],
     bin |-> unit.bytecodes_init[name],
     srcmap |-> Join(unit.srcmaps_init[name]),
     filenames |-> [absolute |-> filename.absolute, used |-> filename.used,
                    short |-> filename.short, relative |-> filename.relative],
     libraries |-> libraries_names_and_patterns(unit, name),
     is_dependency |-> session_is_dependency(session, kind, cached, filename.absolute).ret,
     userdoc |-> unit.natspec[name].userdoc,
     devdoc |-> unit.natspec[name].devdoc]
    @@ ("bin-runtime" :> unit.bytecodes_runtime[name])
    @@ ("srcmap-runtime" :> Join(unit.srcmaps_runtime[name]))

\* the contract loop of one unit, the platform's cache carried from one
\* is_dependency call to the next
RECURSIVE ExportContracts(_, _, _, _, _, _)
ExportContracts(session, kind, cached, unit, todo, acc) ==
    IF todo = {} THEN [contracts |-> acc, cached |-> cached]
    ELSE LET name == CHOOSE n \in todo : TRUE
             filename == unit.contracts_filenames[name]
         IN ExportContracts(
                session, kind,
                session_is_dependency(session, kind, cached, filename.absolute).cached,
                unit, todo \ {name},
                Put(acc, name, ExportContract(session, kind, cached, unit, name)))

\* standard.py 166-172
ExportCompiler(unit) ==
    IF unit.compiler_version # UnsetVersion
    THEN [compiler |-> unit.compiler_version.compiler,
          version |-> unit.compiler_version.version,
          optimized |-> unit.compiler_version.optimized]
    ELSE EmptyDict

\* standard.py 141-178: the unit loop
RECURSIVE ExportUnits(_, _, _, _, _)
ExportUnits(session, kind, cached, todo, acc) ==
    IF todo = {} THEN [units |-> acc, cached |-> cached]
    ELSE LET key == CHOOSE k \in todo : TRUE
             unit == session.compilation_units[key]
             done == ExportContracts(session, kind, cached, unit,
                                     unit.contracts_names, EmptyDict)
         IN ExportUnits(session, kind, done.cached, todo \ {key},
                        Put(acc, key, [compiler |-> ExportCompiler(unit),
                                       asts |-> unit.asts,
                                       contracts |-> done.contracts]))

\* the exceptions the contracts of the session raise when exported
ExportErrors(session) ==
    UNION {{ExportError(session.compilation_units[k], n) :
               n \in session.compilation_units[k].contracts_names} :
              k \in DOMAIN session.compilation_units} \ {None}

\* standard.py 133-187: the document, or the exception of the first contract
\* that cannot be exported, and the platform's cache after the call
generate_standard_export(session, plat) ==
    IF ExportErrors(session) # {}
    THEN [exc |-> CHOOSE e \in ExportErrors(session) : TRUE, doc |-> EmptyDict,
          cached |-> plat.cached]
    ELSE LET done == ExportUnits(session, plat.kind, plat.cached,
                                 DOMAIN session.compilation_units, EmptyDict)
         IN [exc |-> None,
             doc |-> [compilation_units |-> done.units,
                      package |-> session.package_name,
                      working_dir |-> session.working_dir,
                      type |-> platform_type_used(plat),
                      unit_tests |-> guessed_tests(plat)],
             cached |-> done.cached]


\* export_to_standard's call of generate_standard_export on the session a
\* compile has left, whether the compile returned or raised
Export ==
    /\ CompileEnded
    /\ Len(hist.exports) < MaxExports
    /\ LET result == generate_standard_export(cc, platform) IN
        /\ hist' = [hist EXCEPT !.exports = Append(@, [exc |-> result.exc, doc |-> result.doc])]
        /\ platform' = [platform EXCEPT !.cached = result.cached]
    /\ UNCHANGED <<cc, pc, env, loc, fn>>

\* the exported file is given to Standard.compile in a fresh session; the
\* session that wrote it is kept for comparison
Reload ==
    /\ pc = "done"
    /\ hist.orig = <<>>
    /\ Len(hist.exports) >= 1
    /\ hist.exports[Len(hist.exports)].exc = None
    /\ hist' = [hist EXCEPT
                   !.orig = <<[cc |-> cc, platform |-> platform]>>,
                   !.exports = <<>>]
    /\ cc' = FreshSession
    /\ platform' = NewPlatform("Standard")
    /\ env' = [kind |-> "Standard", doc |-> hist.exports[Len(hist.exports)].doc]
    /\ loc' = Idle
    /\ pc' = "std_compile"
    /\ UNCHANGED fn

---------------------------------------------------------------------------
(* The platforms run on a project, their output exported and loaded again *)

Init ==
    /\ cc = FreshSession
    /\ env \in DappInputs \cup WaffleInputs
    /\ platform = NewPlatform(env.kind)
    /\ pc = IF env.kind = "Dapp" THEN "dapp_compile" ELSE "waffle_compile"
    /\ loc = Idle
    /\ hist = NoHistory
    /\ fn = Idle

Next ==
    \/ DappRun
    \/ DappUnit
    \/ DappOpen
    \/ DappContract
    \/ DappSources
    \/ DappFinish
    \/ WaffleConfig
    \/ WaffleRun
    \/ WaffleOutput
    \/ WaffleContract
    \/ WaffleFinish
    \/ Export
    \/ Reload
    \/ LoadBegin
    \/ CurrentUnit
    \/ CurrentContract
    \/ CurrentAsts
    \/ LoadFinish
    \/ StandardResolve

Spec == Init /\ [][Next]_vars

---------------------------------------------------------------------------
(* Standard.compile on a document, and the export of what it loaded *)

InitImport ==
    /\ cc = FreshSession
    /\ platform = NewPlatform("Standard")
    /\ pc = "std_compile"
    /\ env \in {[kind |-> "Standard", doc |-> d] : d \in LegacyDocs(ContractBodies) \cup CurrentDocs(ContractBodies)}
    /\ loc = Idle
    /\ hist = NoHistory
    /\ fn = Idle

NextImport ==
    \/ LoadBegin
    \/ LegacyUnit
    \/ LegacyContract
    \/ CurrentUnit
    \/ CurrentContract
    \/ CurrentAsts
    \/ LoadFinish
    \/ StandardResolve
    \/ Export

SpecImport == InitImport /\ [][NextImport]_vars


---------------------------------------------------------------------------
(* Properties of the platforms, the export and the reload *)

AdapterKinds == {"Dapp", "Waffle"}

\* the session came out of a Dapp or Waffle compile that returned
AdapterDone == pc = "done" /\ env.kind \in AdapterKinds

\* the session was loaded from the export of an earlier session
Reloaded == Len(hist.orig) = 1 /\ pc = "done"

UnitContracts(session) ==
    UNION {{<<k, n>> : n \in session.compilation_units[k].contracts_names} :
             k \in DOMAIN session.compilation_units}

\* the per-contract data the round trip is to preserve, read through the
\* accessors the export itself uses
ContractView(session, plat, k, n) ==
    LET unit == session.compilation_units[k]
        filename == unit.contracts_filenames[n]
    IN [abi |-> unit.abis[n],
        bin |-> unit.bytecodes_init[n],
        bin_runtime |-> unit.bytecodes_runtime[n],
        srcmap |-> unit.srcmaps_init[n],
        srcmap_runtime |-> unit.srcmaps_runtime[n],
        filename |-> filename,
        libraries |-> libraries_names_and_patterns(unit, n),
        is_dependency |->
            IF IsFilename(filename)
            THEN session_is_dependency(session, plat.kind, plat.cached,
                                       filename.absolute).ret
            ELSE FALSE]

SameSession(a, pa, b, pb) ==
    /\ DOMAIN a.compilation_units = DOMAIN b.compilation_units
    /\ UnitContracts(a) = UnitContracts(b)
    /\ \A kn \in UnitContracts(a) :
           ContractView(a, pa, kn[1], kn[2]) = ContractView(b, pb, kn[1], kn[2])
    /\ \A k \in DOMAIN a.compilation_units :
           /\ a.compilation_units[k].compiler_version
                  = b.compilation_units[k].compiler_version
           /\ a.compilation_units[k].asts = b.compilation_units[k].asts

\* C1: every session a platform produced can be exported, and loading the
\* exported document gives a session with the same unit keys and, for every
\* contract, the same ABI, bytecodes, source maps, four filename views,
\* libraries and dependency flag, and per unit the same compiler and ASTs
C1_RoundTrip ==
    /\ (AdapterDone /\ Len(hist.exports) >= 1) => hist.exports[1].exc = None
    /\ Reloaded => SameSession(hist.orig[1].cc, hist.orig[1].platform, cc, platform)

\* what does hold: a session whose export succeeded is restored by the reload
RoundTripOfExported ==
    Reloaded => SameSession(hist.orig[1].cc, hist.orig[1].platform, cc, platform)


\* C6: with nothing done to the session in between, successive calls of
\* generate_standard_export give the same outcome: the same document (dicts
\* are functions, so key order plays no part), every contract's
\* is_dependency included, or the same exception
C6_ExportDeterminism ==
    \A i, j \in 1..Len(hist.exports) : hist.exports[i] = hist.exports[j]
C6_Witness ==
    /\ platform.kind = "Waffle"
    /\ Len(hist.exports) = 2
    /\ hist.exports[1].exc = None
    /\ \E k \in DOMAIN hist.exports[2].doc["compilation_units"] :
           LET contracts == hist.exports[2].doc["compilation_units"][k]["contracts"]
           IN \E n, m \in DOMAIN contracts :
                  /\ contracts[n]["is_dependency"]
                  /\ ~contracts[m]["is_dependency"]

PerContractMappings(unit) ==
    <<unit.contracts_filenames, unit.abis, unit.bytecodes_init,
      unit.bytecodes_runtime, unit.srcmaps_init, unit.srcmaps_runtime,
      unit.libraries, unit.natspec>>

\* C7: when a compile has returned, every name of a unit's contracts_names
\* has an entry in contracts_filenames, abis, bytecodes_init,
\* bytecodes_runtime, srcmaps_init, srcmaps_runtime, libraries and natspec,
\* and its contracts_filenames entry is a four-view Filename
C7_UnitComplete ==
    pc = "done" =>
        \A kn \in UnitContracts(cc) :
            LET unit == cc.compilation_units[kn[1]] IN
            /\ \A i \in 1..Len(PerContractMappings(unit)) :
                   Has(PerContractMappings(unit)[i], kn[2])
            /\ IsFilename(unit.contracts_filenames[kn[2]])

\* the flags the contracts of the build output report, by contract
ReportedFlags ==
    {<<n, OptimizerFlag(loc.output["contracts"][n].info)>> :
        n \in {m \in DOMAIN loc.output["contracts"] :
                  HasOptimizerFlag(loc.output["contracts"][m].info)}}

\* C8: after Dapp.compile the unit's compiler_version.optimized is true
\* exactly when some contract's metadata has settings.optimizer.enabled true,
\* whatever the order the contracts were read in
C8_OptimizerOr ==
    (env.kind = "Dapp" /\ pc = "done") =>
        cc.compilation_units[Target].compiler_version.optimized
            = PyBool(\E f \in ReportedFlags : f[2])
C8_Witness ==
    /\ env.kind = "Dapp" /\ pc = "done"
    /\ \E a, b, c \in DOMAIN loc.output["contracts"] :
           /\ a # c
           /\ <<a, FALSE>> \in ReportedFlags
           /\ <<b, TRUE>> \in ReportedFlags
           /\ <<c, FALSE>> \in ReportedFlags
    /\ cc.compilation_units[Target].compiler_version.optimized = PyTrue

\* the build command of this compile failed: it could not be spawned or it
\* exited with a non-zero status
ToolFailed ==
    /\ env.kind \in AdapterKinds
    /\ ~env.ignore
    /\ env.tool \in {"nonzero", "oserror"}

\* C10: a compile whose build command failed ends with InvalidCompilation,
\* has run the command once at most, and has populated no contract
C10_FailedToolFatal ==
    (ToolFailed /\ CompileEnded) =>
        /\ pc = "raised" /\ hist.exc = InvalidCompilation
        /\ hist.runs <= 1
        /\ UnitContracts(cc) = {}

---------------------------------------------------------------------------
(* The short-path rules of the platforms, applied to relative paths *)

PathComponents == {"src", "lib", "contracts", "node_modules", "x", "a.sol"}

RECURSIVE PathsOfLength(_)
PathsOfLength(n) ==
    IF n = 0 THEN {<<>>}
    ELSE {Append(p, c) : p \in PathsOfLength(n - 1), c \in PathComponents}

\* relative paths of at most MaxParts components; Path(".") has none
RelativePaths == UNION {PathsOfLength(n) : n \in 0..MaxParts}

InitShort ==
    /\ cc = FreshSession
    /\ platform = NewPlatform("Standard")
    /\ pc = "short"
    /\ env = [kind |-> None]
    /\ loc = Idle
    /\ hist = NoHistory
    /\ fn \in {[op |-> None, relative |-> p, short |-> p] : p \in RelativePaths}

DappShort ==
    /\ fn.op = None
    /\ fn' = [fn EXCEPT !.op = "dapp", !.short = dapp_relative_to_short(fn.relative)]
    /\ UNCHANGED <<cc, platform, pc, env, loc, hist>>

WaffleShort ==
    /\ fn.op = None
    /\ fn' = [fn EXCEPT !.op = "waffle", !.short = waffle_relative_to_short(fn.relative)]
    /\ UNCHANGED <<cc, platform, pc, env, loc, hist>>

NextShort ==
    \/ DappShort
    \/ WaffleShort

SpecShort == InitShort /\ [][NextShort]_vars

\* the roots of a rule, the one tried first in front
Roots(op) ==
    IF op = "dapp" THEN <<"src", "lib">> ELSE <<"contracts", "node_modules">>

\* the directories of a path: its components but the last
Directories(path) == {path[i] : i \in 1..(Len(path) - 1)}

RECURSIVE Below(_, _)
\* what is left of a path under a root: the components after the root's first
\* occurrence
Below(path, root) ==
    IF path = <<>> THEN <<>>
    ELSE IF Head(path) = root THEN Tail(path)
    ELSE Below(Tail(path), root)

ShortApplied == fn.op \in {"dapp", "waffle"}

\* C9 as claimed: a path with both roots among its directories is shortened
\* to what lies below the root tried first, and a path with neither root among
\* its components is returned unchanged
C9_Original ==
    ShortApplied =>
        LET A == Roots(fn.op)[1]
            B == Roots(fn.op)[2]
        IN /\ ({A, B} \subseteq Directories(fn.relative))
                  => fn.short = Below(fn.relative, A)
           /\ ({A, B} \cap Parts(fn.relative) = {}) => fn.short = fn.relative

\* C9 (amended): only the first component decides. A path that starts with
\* the root tried first loses that component, a path that starts with the
\* other root loses that one even when the first root lies below it, and any
\* other path is returned unchanged even when it has both roots among its
\* directories
C9_ShortPrecedence ==
    ShortApplied =>
        LET A == Roots(fn.op)[1]
            B == Roots(fn.op)[2]
        IN IF StartsWith(fn.relative, A) \/ StartsWith(fn.relative, B)
           THEN fn.short = Tail(fn.relative)
           ELSE fn.short = fn.relative
C9_Witness ==
    /\ fn.op = "dapp"
    /\ fn.relative = <<"lib", "src", "a.sol">>
    /\ fn.short = <<"src", "a.sol">>

---------------------------------------------------------------------------
(* Properties of the compiler version, the filename set and the source maps *)

UnsetUnits(session) ==
    {k \in DOMAIN session.compilation_units :
        session.compilation_units[k].compiler_version = UnsetVersion}

\* C11: generate_standard_export on a session with a unit whose
\* compiler_version was never set fails, and no document it returns has a
\* unit whose "compiler" object lacks compiler, version or optimized
C11_UnsetVersionRejected ==
    \A i \in 1..Len(hist.exports) :
        /\ UnsetUnits(cc) # {} => hist.exports[i].exc # None
        /\ hist.exports[i].exc = None =>
               \A k \in DOMAIN hist.exports[i].doc["compilation_units"] :
                   {"compiler", "version", "optimized"} \subseteq
                       DOMAIN hist.exports[i].doc["compilation_units"][k]["compiler"]


\* C12: once a unit's compiler_version has been assigned it is never assigned
\* again and the unit is populated no further (the assignment comes when the
\* unit finishes populating), and a compile that returns leaves no unit
\* without one
C12_VersionSetOnce ==
    /\ [](pc = "done" => UnsetUnits(cc) = {})
    /\ [][\A k \in DOMAIN cc.compilation_units \cap DOMAIN cc'.compilation_units :
              cc.compilation_units[k].compiler_version # UnsetVersion
                  => cc'.compilation_units[k] = cc.compilation_units[k]]_vars

\* the reassignment alone: an assigned compiler_version keeps its value
VersionNeverReassigned ==
    [][\A k \in DOMAIN cc.compilation_units \cap DOMAIN cc'.compilation_units :
          cc.compilation_units[k].compiler_version # UnsetVersion
              => cc'.compilation_units[k].compiler_version
                     = cc.compilation_units[k].compiler_version]_vars


\* C13: when load_from_compile has returned, the session's filename set is
\* the union of the contracts_filenames values of its units: every
\* contract's Filename is in it, and it holds nothing else
C13_FilenamesAreUnion ==
    LoadReturned =>
        /\ \A kn \in UnitContracts(cc) :
               cc.compilation_units[kn[1]].contracts_filenames[kn[2]] \in cc.filenames
        /\ \A f \in cc.filenames :
               \E kn \in UnitContracts(cc) :
                   cc.compilation_units[kn[1]].contracts_filenames[kn[2]] = f
C13_Witness ==
    /\ LoadReturned
    /\ Cardinality(DOMAIN cc.compilation_units) = 2
    /\ Cardinality(cc.filenames) >= 2
    /\ Cardinality(UnitContracts(cc)) > Cardinality(cc.filenames)


\* C14: after Dapp.compile and after Waffle.compile every contract's
\* srcmaps_init is the build output's evm.bytecode.sourceMap split on ";" and
\* its srcmaps_runtime is evm.deployedBytecode.sourceMap split on ";"
C14_SourceMapsMatch ==
    AdapterDone =>
        \A n \in DOMAIN loc.output["contracts"] :
            LET evm == loc.output["contracts"][n].info["evm"]
                unit == cc.compilation_units[Target]
            IN /\ unit.srcmaps_init[n] = Split(evm["bytecode"]["sourceMap"])
               /\ unit.srcmaps_runtime[n] = Split(evm["deployedBytecode"]["sourceMap"])

\* what Waffle.compile does and Dapp.compile does not
WaffleSourceMapsMatch ==
    (AdapterDone /\ env.kind = "Waffle") =>
        \A n \in DOMAIN loc.output["contracts"] :
            LET evm == loc.output["contracts"][n].info["evm"]
                unit == cc.compilation_units[Target]
            IN /\ unit.srcmaps_init[n] = Split(evm["bytecode"]["sourceMap"])
               /\ unit.srcmaps_runtime[n] = Split(evm["deployedBytecode"]["sourceMap"])

---------------------------------------------------------------------------
(* is_dependency called again and again on one platform instance *)

InitDep ==
    /\ cc = FreshSession
    /\ platform \in {NewPlatform("Dapp"), NewPlatform("Waffle")}
    /\ pc = "is_dependency"
    /\ env = [kind |-> None]
    /\ loc = Idle
    /\ hist = NoHistory
    /\ fn = [op |-> "is_dependency", calls |-> <<>>]

\* the paths asked about: under lib, under node_modules, under both, under neither
DepPaths ==
    {<<"lib", "a.sol">>, <<"node_modules", "b.sol">>,
     <<"lib", "node_modules", "c.sol">>, <<"src", "d.sol">>}

DappIsDependencyCall ==
    /\ platform.kind = "Dapp"
    /\ Len(fn.calls) < MaxCalls
    /\ \E path \in DepPaths :
        LET result == dapp_is_dependency(platform.cached, path) IN
        /\ platform' = [platform EXCEPT !.cached = result.cached]
        /\ fn' = [fn EXCEPT !.calls = Append(@, [path |-> path, ret |-> result.ret])]
    /\ UNCHANGED <<cc, pc, env, loc, hist>>

WaffleIsDependencyCall ==
    /\ platform.kind = "Waffle"
    /\ Len(fn.calls) < MaxCalls
    /\ \E path \in DepPaths :
        LET result == waffle_is_dependency(platform.cached, path) IN
        /\ platform' = [platform EXCEPT !.cached = result.cached]
        /\ fn' = [fn EXCEPT !.calls = Append(@, [path |-> path, ret |-> result.ret])]
    /\ UNCHANGED <<cc, pc, env, loc, hist>>

NextDep ==
    \/ DappIsDependencyCall
    \/ WaffleIsDependencyCall

SpecDep == InitDep /\ [][NextDep]_vars

\* C15: on one Dapp or Waffle instance every is_dependency call returns what
\* the first call with the same path returned, and the value the call leaves
\* in _cached_dependencies for the path is the value it returned
C15_StableUnderCaching ==
    /\ \A i, j \in 1..Len(fn.calls) :
           fn.calls[i].path = fn.calls[j].path => fn.calls[i].ret = fn.calls[j].ret
    /\ Len(fn.calls) > 0 =>
           LET last == fn.calls[Len(fn.calls)]
           IN Has(platform.cached, last.path) /\ platform.cached[last.path] = last.ret

\* what does hold: the Waffle predicate is stable
WaffleStableUnderCaching ==
    platform.kind = "Waffle" => C15_StableUnderCaching

---------------------------------------------------------------------------
(* Properties of the platform tag, the test hints and the package *)

\* the fields of a document as load_from_compile reads them: an absent
\* unit_tests is the empty list, an absent package is None
DocHints(doc) ==
    [type |-> doc["type"],
     unit_tests |-> IF Has(doc, "unit_tests") THEN doc["unit_tests"] ELSE <<>>,
     package |-> IF Has(doc, "package") THEN doc["package"] ELSE None]

\* Standard.compile has returned on a document with a registered platform's tag
LoadedRegistered ==
    /\ env.kind = "Standard"
    /\ pc = "done"
    /\ \E p \in RegisteredPlatforms : TypeOf(p) = env.doc["type"]

\* C16: after Standard.compile has loaded a document with a registered
\* platform's tag, platform_type_used is the document's type, the guessed
\* tests are its unit_tests, package_name is its package, and every export of
\* the session carries the same three values
C16_HintsSurviveReload ==
    LoadedRegistered =>
        /\ platform_type_used(platform) = DocHints(env.doc).type
        /\ guessed_tests(platform) = DocHints(env.doc).unit_tests
        /\ cc.package_name = DocHints(env.doc).package
        /\ \A i \in 1..Len(hist.exports) :
               /\ hist.exports[i].exc = None
               /\ DocHints(hist.exports[i].doc) = DocHints(env.doc)
C16_Witness ==
    /\ LoadedRegistered
    /\ env.doc["type"] = TypeDapp
    /\ Has(env.doc, "unit_tests") /\ env.doc["unit_tests"] # <<>>
    /\ UnitContracts(cc) # {}
    /\ Len(hist.exports) >= 1
    /\ hist.exports[1].doc["type"] = TypeDapp

=============================================================================
